---- MODULE Spec2Model ----
(***************************************************************************)
(* A model of main.py: the FastAPI handlers of the Slack helper bot, run   *)
(* by one asyncio event loop.  A request handler with no real suspend      *)
(* point is one atomic action; a background export job is a small program  *)
(* whose steps are separated at the places where the coroutine awaits.     *)
(***************************************************************************)
EXTENDS Integers, Sequences, FiniteSets, TLC

VARIABLES
    message_counts,  \* main.py:28, the in-memory map user_id -> count
    fs,              \* the working directory: filename -> file (absent = not in DOMAIN)
    jobs,            \* the background tasks added by /trips and /users, in order
    running,         \* the job that holds the event loop (0: the loop is free)
    last             \* the most recent HTTP exchange: request, response, calls made

vars == <<message_counts, fs, jobs, running, last>>

----------------------------------------------------------------------------
(* Bounds and input sets *)

MaxJobs == 2

Channels == {"C1", "C2"}
Users == {"U1", "U2"}
Challenges == {"ch1", "ch2"}
ErrorCode == "channel_not_found"

\* f'<@{BOT_ID}>' : one atom of a text; a text is a sequence of atoms
Mention == "<@U_BOT>"
Space == " "

\* Outcomes of a call of the chat platform client
ApiOutcomes == {"ok", "SlackApiError"}

GreetingReply == <<"Hello! How can I assist you today?">>
FallbackReply == <<"Sorry, I'm having trouble understanding.">>

\* What model.generate / tokenizer.decode may give: a text, or an exception
ModelOutcomes ==
    { [kind |-> "raise", text |-> <<>>],
      [kind |-> "text", text |-> <<"generated">>],
      [kind |-> "text", text |-> <<"generated", Space, Mention>>] }

\* Message texts a user may send
UserTexts ==
    { <<>>,
      <<"h", "i">>,
      <<Mention>>,
      <<Mention, Space, "H", "I">>,
      <<"h", Mention, "i", Space>>,
      <<Mention, Space, "x">>,
      <<"x", Space, Mention>> }

\* Texts the bot itself posts as a reply
BotTexts == {GreetingReply, FallbackReply} \cup {o.text : o \in {m \in ModelOutcomes : m.kind = "text"}}

----------------------------------------------------------------------------
(* Text functions used by generate_ai_response *)

Contains(text, atom) == \E i \in 1..Len(text) : text[i] = atom

\* str.replace(mention, '')
RemoveMention(text) == SelectSeq(text, LAMBDA c : c # Mention)

RECURSIVE LStrip(_)
LStrip(text) ==
    IF text # <<>> /\ Head(text) = Space THEN LStrip(Tail(text)) ELSE text

RECURSIVE RStrip(_)
RStrip(text) ==
    IF text # <<>> /\ text[Len(text)] = Space
    THEN RStrip(SubSeq(text, 1, Len(text) - 1))
    ELSE text

\* str.strip()
Strip(text) == RStrip(LStrip(text))

LowerAtom(c) ==
    CASE c = "H" -> "h"
      [] c = "I" -> "i"
      [] OTHER -> c

\* str.lower()
Lower(text) == [i \in 1..Len(text) |-> LowerAtom(text[i])]

Greetings == { <<"h", "e", "l", "l", "o">>, <<"h", "i">>, <<"h", "e", "y">> }

GenerateAiResponse(input_text, gen) ==
    LET processed_text == Strip(RemoveMention(input_text))
    IN  IF Lower(processed_text) \in Greetings
        THEN GreetingReply
        ELSE IF gen.kind = "raise" THEN FallbackReply ELSE gen.text

----------------------------------------------------------------------------
(* The synchronous handlers, as functions from the request and the outcomes *)
(* of the calls they make to the response and the calls issued.             *)

NoCounts == [u \in {} |-> 0]

\* dict.get(key, default)
DictGet(d, key, default) == IF key \in DOMAIN d THEN d[key] ELSE default

Str(n) == CASE n = 0 -> "0" [] n = 1 -> "1" [] n = 2 -> "2" [] OTHER -> "many"

\* f"Messages: {count}"
FormatCount(count) == <<"Messages: ", Str(count)>>

\* message_counts.get(user_id, 0)
LookupCount(counts, user_id) == DictGet(counts, user_id, 0)

\* What handling an event leaves in message_counts: process_event_data and
\* slack_events never assign to it
CountsAfterEventCounting(counts, body) ==
    IF "event" \in DOMAIN body
    THEN [u \in DOMAIN counts \cup {"U1"} |-> DictGet(counts, u, 0) + 1]
    ELSE counts

CountsAfterEvent(counts, body) == counts

Post(channel, text, result) == [channel |-> channel, text |-> text, result |-> result]

Reply(status, content, posts, generated) ==
    [status |-> status, content |-> content, posts |-> posts, generated |-> generated]

\* message_count with the except clause re-raising: the framework answers 500
MessageCountReplyPropagating(counts, channel_id, user_id, outcome) ==
    LET call == Post(channel_id, FormatCount(LookupCount(counts, user_id)), outcome)
    IN  IF outcome = "SlackApiError"
        THEN Reply(500, <<"Internal Server Error">>, <<call>>, <<>>)
        ELSE Reply(200, <<>>, <<call>>, <<>>)

\* message_count: main.py:30-39.  outcome: what chat_postMessage does.
MessageCountReply(counts, channel_id, user_id, outcome) ==
    LET count == LookupCount(counts, user_id)
        call  == Post(channel_id, FormatCount(count), outcome)
    IN  IF outcome = "SlackApiError"
        THEN Reply(200, <<"Error uploading file: ", ErrorCode>>, <<call>>, <<>>)
        ELSE Reply(200, <<>>, <<call>>, <<>>)

\* commands: main.py:89-107
CommandsReply ==
    Reply(200,
          <<"ephemeral", "Here are the available commands:",
            "/trips: provides a downloadable csv for all trips",
            "/users: provides a downloadable csv for all users",
            "/message-count: Shows the count of all messages">>,
          <<>>, <<>>)

Outcome(raised, posts, generated) ==
    [raised |-> raised, posts |-> posts, generated |-> generated]

\* The filter without its bot_id test
NotFromBotUnchecked(event) == TRUE

\* 'bot_id' not in event
NotFromBot(event) == "bot_id" \notin DOMAIN event

\* text.startswith(mention) in place of the substring test
MentionsBotAtStart(text) == text # <<>> /\ Head(text) = Mention

\* f'<@{BOT_ID}>' in event['text']
MentionsBot(text) == Contains(text, Mention)

\* The reply branch of process_event_data: main.py:129-135
ReplyToMention(event, gen, outcome) ==
    LET response == GenerateAiResponse(event.text, gen)
    IN  IF "channel" \notin DOMAIN event
        THEN Outcome(TRUE, <<>>, <<response>>)             \* KeyError: 'channel'
        ELSE Outcome(FALSE, <<Post(event.channel, response, outcome)>>, <<response>>)

\* process_event_data: main.py:123-135.  raised: a KeyError left the function.
ProcessEventData(data, gen, outcome) ==
    IF "type" \notin DOMAIN data THEN Outcome(TRUE, <<>>, <<>>)
    ELSE IF data.type # "event_callback" THEN Outcome(FALSE, <<>>, <<>>)
    ELSE IF "event" \notin DOMAIN data THEN Outcome(TRUE, <<>>, <<>>)
    ELSE LET event == data.event
         IN  IF "type" \notin DOMAIN event THEN Outcome(TRUE, <<>>, <<>>)
             ELSE IF event.type = "message" /\ NotFromBot(event)
             THEN IF "text" \notin DOMAIN event THEN Outcome(TRUE, <<>>, <<>>)
                  ELSE IF MentionsBot(event.text)
                       THEN ReplyToMention(event, gen, outcome)
                       ELSE Outcome(FALSE, <<>>, <<>>)
             ELSE Outcome(FALSE, <<>>, <<>>)

\* The handler without its header test
SignatureMissingUnchecked(sig) == FALSE

\* request.headers.get('X-Slack-Signature') is None
SignatureMissing(sig) == ~sig

ServerError == <<"Internal Server Error">>

\* slack_events: main.py:109-121
SlackEventsReply(sig, body, gen, outcome) ==
    IF SignatureMissing(sig) THEN Reply(403, <<>>, <<>>, <<>>)
    ELSE IF DictGet(body, "type", "None") = "url_verification"
    THEN IF "challenge" \in DOMAIN body
         THEN Reply(200, <<"challenge", body.challenge>>, <<>>, <<>>)
         ELSE Reply(500, ServerError, <<>>, <<>>)          \* KeyError: 'challenge'
    ELSE LET r == ProcessEventData(body, gen, outcome)
         IN  IF r.raised
             THEN Reply(500, ServerError, r.posts, r.generated)
             ELSE Reply(200, <<>>, r.posts, r.generated)

----------------------------------------------------------------------------
(* Request inputs *)

MessageEvents ==
    { [type |-> "message", text |-> t, channel |-> c] : t \in UserTexts, c \in Channels }
    \cup { [type |-> "message", bot_id |-> "B1", text |-> t, channel |-> c] :
             t \in UserTexts, c \in Channels }
    \cup { [type |-> "message", channel |-> c] : c \in Channels }
    \cup { [type |-> "message", text |-> t] : t \in {<<Mention>>, <<"h", "i">>} }

OtherEvents == { [type |-> "reaction_added"], [channel |-> "C1"] }

EventBodies ==
    { [type |-> "event_callback", event |-> e] : e \in MessageEvents \cup OtherEvents }
    \cup { [type |-> "event_callback"], [type |-> "app_rate_limited"], [token |-> "t"] }
    \cup { [type |-> "url_verification", challenge |-> ch] : ch \in Challenges }
    \cup { [type |-> "url_verification"] }

\* A message the bot posted, as the platform delivers it back to /slack/events
EchoBody(post) ==
    [type |-> "event_callback",
     event |-> [type |-> "message", bot_id |-> "B1", text |-> post.text,
                channel |-> post.channel]]

Exchange(endpoint, sig, body, reply) ==
    [tick |-> 1 - last.tick, endpoint |-> endpoint, sig |-> sig, body |-> body,
     status |-> reply.status, content |-> reply.content, posts |-> reply.posts,
     generated |-> reply.generated]

NoExchange ==
    [tick |-> 0, endpoint |-> "none", sig |-> FALSE, body |-> [token |-> "t"],
     status |-> 0, content |-> <<>>, posts |-> <<>>, generated |-> <<>>]


----------------------------------------------------------------------------
(* The data exporter: main.py:41-56 *)

\* A row of the table is an ordered dict: a sequence of <<key, value>> pairs
RowA == << <<"id", "1">> >>
RowB == << <<"id", "2">> >>
RowWide == << <<"id", "3">>, <<"name", "n">> >>

\* What response.json() may give: a list of rows, possibly empty or ragged
DataSets == { <<>>, <<RowA>>, <<RowA, RowB>>, <<RowA, RowWide>>, <<RowWide, RowA>> }

\* dict.keys()
DictKeys(row) == [i \in 1..Len(row) |-> row[i][1]]

HasKey(row, key) == \E i \in 1..Len(row) : row[i][1] = key

ValueOf(row, key) ==
    IF HasKey(row, key)
    THEN row[CHOOSE i \in 1..Len(row) : row[i][1] = key][2]
    ELSE ""                                   \* DictWriter restval

\* DictWriter raises ValueError on a key that is no fieldname
Fits(row, fieldnames) ==
    \A i \in 1..Len(row) : \E k \in 1..Len(fieldnames) : fieldnames[k] = row[i][1]

CsvLine(row, fieldnames) == [k \in 1..Len(fieldnames) |-> ValueOf(row, fieldnames[k])]

Written(exc, content) == [exc |-> exc, content |-> content]

\* writer.writerows(data), after the lines already written
RECURSIVE WriteRows(_, _, _)
WriteRows(rows, fieldnames, sofar) ==
    IF rows = <<>> THEN Written("none", sofar)
    ELSE IF ~Fits(Head(rows), fieldnames) THEN Written("ValueError", sofar)
    ELSE WriteRows(Tail(rows), fieldnames, Append(sofar, CsvLine(Head(rows), fieldnames)))

\* main.py:52-55: what the opened (truncated) file holds when the with block is
\* left, and the exception that left it
WriteCsv(data) ==
    IF data = <<>> THEN Written("IndexError", <<>>)       \* data[0]
    ELSE LET fieldnames == DictKeys(data[1])
         IN  WriteRows(data, fieldnames, <<fieldnames>>)

----------------------------------------------------------------------------
(* Background export jobs: main.py:58-87 *)

NoFiles == [f \in {} |-> 0]

Exists(files, name) == name \in DOMAIN files

FileOf(writer, content) == [writer |-> writer, content |-> content]

\* open(name, 'w') ... close
WithFile(files, name, file) ==
    [f \in DOMAIN files \cup {name} |-> IF f = name THEN file ELSE files[f]]

\* os.remove(name)
Without(files, name) == [f \in DOMAIN files \ {name} |-> files[f]]

FilenameOf(handler) == IF handler = "handle_trips" THEN "trips.csv" ELSE "users.csv"

Ended == {"done", "raised"}

\* A further await between the exporter's return and the upload
SuspendPointsBeforeUpload == {"get", "aclose", "written"}

\* The places where a job gives up the event loop: the await of client.get and
\* the exit of the async with block
SuspendPoints == {"get", "aclose"}

\* await handle_...(channel_id) in the handler: the fetch is under way at the response
NewTaskAwaited(handler, channel_id) ==
    [handler |-> handler, channel_id |-> channel_id, pc |-> "get",
     data |-> <<>>, csv_file |-> <<>>, written |-> <<>>, uploaded |-> <<>>,
     exc |-> "none"]

\* background_tasks.add_task(handle_..., channel_id): the task waits for the response
NewTask(handler, channel_id) ==
    [handler |-> handler, channel_id |-> channel_id, pc |-> "scheduled",
     data |-> <<>>, csv_file |-> <<>>, written |-> <<>>, uploaded |-> <<>>,
     exc |-> "none"]

\* The removal placed after the try block instead of in a finally clause
AfterFinallyOnSuccess(files, job) ==
    IF job.exc = "none" /\ job.csv_file # <<>> /\ Exists(files, job.csv_file[1])
    THEN Without(files, job.csv_file[1])
    ELSE files

\* The finally clause: main.py:70-72, 85-87
AfterFinally(files, job) ==
    IF job.csv_file # <<>> /\ Exists(files, job.csv_file[1])
    THEN Without(files, job.csv_file[1])
    ELSE files

\* The coroutine is over: its locals are gone
EndOf(job, pc, exc) ==
    [job EXCEPT !.pc = pc, !.exc = exc, !.data = <<>>, !.written = <<>>,
                !.uploaded = <<>>]

JobIds == 1..Len(jobs)

Runnable(j) ==
    /\ jobs[j].pc \notin Ended
    /\ \/ running = j
       \/ running = 0 /\ jobs[j].pc \in SuspendPoints \cup {"scheduled"}

\* Job j has taken a step to newjob: it keeps the loop unless it suspends or ends
Step(j, newjob) ==
    /\ Runnable(j)
    /\ jobs' = [jobs EXCEPT ![j] = newjob]
    /\ running' = IF newjob.pc \in SuspendPoints \cup Ended THEN 0 ELSE j

\* POST /trips: main.py:58-62
Trips(channel_id) ==
    /\ running = 0
    /\ Len(jobs) < MaxJobs
    /\ jobs' = Append(jobs, NewTask("handle_trips", channel_id))
    /\ last' = Exchange("/trips", FALSE, [channel_id |-> channel_id],
                        Reply(200, <<>>, <<>>, <<>>))
    /\ UNCHANGED <<message_counts, fs, running>>

\* POST /users: main.py:74-77
UsersExport(channel_id) ==
    /\ running = 0
    /\ Len(jobs) < MaxJobs
    /\ jobs' = Append(jobs, NewTask("handle_users", channel_id))
    /\ last' = Exchange("/users", FALSE, [channel_id |-> channel_id],
                        Reply(200, <<>>, <<>>, <<>>))
    /\ UNCHANGED <<message_counts, fs, running>>

\* The task starts and runs to the await of client.get: main.py:65, 42-49
StartJob(j) ==
    /\ jobs[j].pc = "scheduled"
    /\ Step(j, [jobs[j] EXCEPT !.pc = "get"])
    /\ UNCHANGED <<message_counts, fs, last>>

\* client.get returns and response.json() is read, or the request fails: main.py:49-50
GetReturns(j) ==
    /\ jobs[j].pc = "get"
    /\ \/ \E data \in DataSets : Step(j, [jobs[j] EXCEPT !.pc = "aclose", !.data = data])
       \/ Step(j, EndOf(jobs[j], "raised", "HTTPError"))
    /\ UNCHANGED <<message_counts, fs, last>>

\* The file is opened and written and the exporter returns: main.py:51-56
Export(j) ==
    /\ jobs[j].pc = "aclose"
    /\ LET job == jobs[j]
           name == FilenameOf(job.handler)
           w == WriteCsv(job.data)
       IN  /\ fs' = WithFile(fs, name, FileOf(j, w.content))
           /\ IF w.exc = "none"
              THEN Step(j, [job EXCEPT !.pc = "written", !.csv_file = <<name>>,
                                       !.written = w.content])
              ELSE Step(j, EndOf(job, "raised", w.exc))
    /\ UNCHANGED <<message_counts, last>>

\* client.files_upload(file=csv_file): main.py:67-68
Upload(j) ==
    /\ jobs[j].pc = "written"
    /\ LET job == jobs[j]
           name == job.csv_file[1]
       IN  IF ~Exists(fs, name)
           THEN Step(j, [job EXCEPT !.pc = "finally", !.exc = "FileNotFoundError"])
           ELSE \/ Step(j, [job EXCEPT !.pc = "uploaded", !.uploaded = <<fs[name]>>])
                \/ Step(j, [job EXCEPT !.pc = "finally", !.exc = "SlackApiError"])
    /\ UNCHANGED <<message_counts, fs, last>>

\* client.chat_postMessage(text=f"... <{file_link}|Download CSV>"): main.py:69
PostLink(j) ==
    /\ jobs[j].pc = "uploaded"
    /\ \E outcome \in ApiOutcomes :
          Step(j, [jobs[j] EXCEPT !.pc = "finally",
                                  !.exc = IF outcome = "ok" THEN "none" ELSE outcome])
    /\ UNCHANGED <<message_counts, fs, last>>

\* finally: remove the file; then the job returns or the exception leaves it
Finally(j) ==
    /\ jobs[j].pc = "finally"
    /\ fs' = AfterFinally(fs, jobs[j])
    /\ Step(j, EndOf(jobs[j], IF jobs[j].exc = "none" THEN "done" ELSE "raised",
                     jobs[j].exc))
    /\ UNCHANGED <<message_counts, last>>

----------------------------------------------------------------------------
(* The synchronous endpoints *)

\* POST /message-count
MessageCount(channel_id, user_id) ==
    /\ running = 0
    /\ \E outcome \in ApiOutcomes :
          last' = Exchange("/message-count", FALSE,
                           [channel_id |-> channel_id, user_id |-> user_id],
                           MessageCountReply(message_counts, channel_id, user_id, outcome))
    /\ UNCHANGED <<message_counts, fs, jobs, running>>

\* POST /commands
Commands ==
    /\ running = 0
    /\ last' = Exchange("/commands", FALSE, [token |-> "t"], CommandsReply)
    /\ UNCHANGED <<message_counts, fs, jobs, running>>

\* POST /slack/events
SlackEvents(sig, body) ==
    /\ running = 0
    /\ \E gen \in ModelOutcomes, outcome \in ApiOutcomes :
          last' = Exchange("/slack/events", sig, body,
                           SlackEventsReply(sig, body, gen, outcome))
    /\ message_counts' = CountsAfterEvent(message_counts, body)
    /\ UNCHANGED <<fs, jobs, running>>

\* The platform delivers a reply the bot has just posted back as a message event
EchoBotMessage ==
    \E i \in 1..Len(last.posts) :
        /\ last.posts[i].result = "ok"
        /\ SlackEvents(TRUE, EchoBody(last.posts[i]))

----------------------------------------------------------------------------

Init ==
    /\ message_counts = NoCounts
    /\ fs = NoFiles
    /\ jobs = <<>>
    /\ running = 0
    /\ last = NoExchange

\* The export commands and the background jobs they start
NextJobs ==
    \/ \E c \in Channels : Trips(c)
    \/ \E c \in Channels : UsersExport(c)
    \/ \E j \in JobIds : StartJob(j)
    \/ \E j \in JobIds : GetReturns(j)
    \/ \E j \in JobIds : Export(j)
    \/ \E j \in JobIds : Upload(j)
    \/ \E j \in JobIds : PostLink(j)
    \/ \E j \in JobIds : Finally(j)

\* The event endpoint, with the synchronous slash commands
NextEvents ==
    \/ \E c \in Channels, u \in Users : MessageCount(c, u)
    \/ Commands
    \/ \E sig \in BOOLEAN, body \in EventBodies : SlackEvents(sig, body)
    \/ EchoBotMessage

SpecJobs == Init /\ [][NextJobs]_vars

SpecEvents == Init /\ [][NextEvents]_vars

----------------------------------------------------------------------------
(* Properties *)

IsEvents == last.endpoint = "/slack/events"

HasEvent == IsEvents /\ "event" \in DOMAIN last.body

\* The request is a signed event callback carrying a user's message that
\* mentions the bot and names its channel
IsMention ==
    /\ HasEvent
    /\ last.sig
    /\ DictGet(last.body, "type", "None") = "event_callback"
    /\ DictGet(last.body.event, "type", "None") = "message"
    /\ "bot_id" \notin DOMAIN last.body.event
    /\ "text" \in DOMAIN last.body.event
    /\ Contains(last.body.event.text, Mention)
    /\ "channel" \in DOMAIN last.body.event

\* C1: a job whose exporter returned (csv_file is set) leaves no file behind
\* when it ends, whether it returns or an exception leaves it.
C1_FileRemovedAtJobEnd ==
    [][\A j \in JobIds :
          (jobs[j].csv_file # <<>> /\ jobs[j].pc \notin Ended /\ jobs'[j].pc \in Ended)
              => ~Exists(fs', jobs[j].csv_file[1])]_vars

\* One job has returned and another was left by a SlackApiError, both after
\* writing their file, and no file is on disk.
C1_Witness ==
    /\ \E j \in JobIds : jobs[j].pc = "done" /\ jobs[j].csv_file # <<>>
    /\ \E j \in JobIds :
          jobs[j].pc = "raised" /\ jobs[j].exc = "SlackApiError" /\ jobs[j].csv_file # <<>>
    /\ DOMAIN fs = {}

\* C2: a SlackApiError raised by files_upload or chat_postMessage in a job is
\* swallowed in the job: no job ends with that exception leaving it.
C2_ApiErrorSwallowed ==
    \A j \in JobIds : ~(jobs[j].pc = "raised" /\ jobs[j].exc = "SlackApiError")

C4_BotEventsIgnored ==
    (HasEvent /\ "bot_id" \in DOMAIN last.body.event) =>
        /\ last.generated = <<>>
        /\ last.posts = <<>>

\* The platform has delivered back a generated reply that itself holds the
\* mention token, signed, and nothing was posted.
C4_Witness ==
    /\ HasEvent
    /\ last.sig
    /\ "bot_id" \in DOMAIN last.body.event
    /\ last.body.event.text = <<"generated", Space, Mention>>
    /\ last.status = 200
    /\ last.posts = <<>>

\* C5: a signed event callback with a user's message that mentions the bot
\* issues exactly one chat_postMessage, to the event's channel, carrying the
\* one result of the generator, whatever the generator and the platform do.
C5_ExactlyOneReply ==
    IsMention =>
        /\ Len(last.posts) = 1
        /\ Len(last.generated) = 1
        /\ last.posts[1].channel = last.body.event.channel
        /\ last.posts[1].text = last.generated[1]
        /\ \E gen \in ModelOutcomes :
              last.generated[1] = GenerateAiResponse(last.body.event.text, gen)

\* A mention in the middle of the text, the generator fell back and the post
\* raised SlackApiError.
C5_Witness ==
    /\ IsMention
    /\ Head(last.body.event.text) # Mention
    /\ Len(last.posts) = 1
    /\ last.posts[1].text = FallbackReply
    /\ last.posts[1].result = "SlackApiError"

\* C6: a request to /slack/events without the signature header is answered
\* 403 with nothing echoed, generated or posted, whatever its payload.
C6_UnsignedRejected ==
    (IsEvents /\ ~last.sig) =>
        /\ last.status = 403
        /\ last.content = <<>>
        /\ last.generated = <<>>
        /\ last.posts = <<>>

\* An unsigned request whose payload, signed, would have been answered with a
\* reply.
C6_Witness ==
    /\ HasEvent
    /\ ~last.sig
    /\ DictGet(last.body.event, "type", "None") = "message"
    /\ "bot_id" \notin DOMAIN last.body.event
    /\ "text" \in DOMAIN last.body.event
    /\ Contains(last.body.event.text, Mention)
    /\ "channel" \in DOMAIN last.body.event
    /\ last.status = 403

\* C7: a /trips or /users request adds exactly one job, not yet started, and is
\* answered 200 with an empty body; no step of a job changes that response,
\* and no other step adds a job.
C7_RespondBeforeJob ==
    [][/\ last' # last =>
            /\ last'.endpoint \in {"/trips", "/users"}
            /\ last'.status = 200
            /\ last'.content = <<>>
            /\ Len(jobs') = Len(jobs) + 1
            /\ SubSeq(jobs', 1, Len(jobs)) = jobs
            /\ jobs'[Len(jobs')].pc = "scheduled"
            /\ jobs'[Len(jobs')].handler =
                   (IF last'.endpoint = "/trips" THEN "handle_trips" ELSE "handle_users")
            /\ jobs'[Len(jobs')].channel_id = last'.body.channel_id
       /\ Len(jobs') # Len(jobs) => last' # last]_vars

\* The job of the last request was left by an exception, another job
\* returned, and the response of the request stands as it was sent.
C7_Witness ==
    /\ Len(jobs) >= 2
    /\ jobs[Len(jobs)].pc = "raised"
    /\ \E j \in JobIds : jobs[j].pc = "done"
    /\ last.endpoint \in {"/trips", "/users"}
    /\ last.status = 200
    /\ last.content = <<>>

\* The file of job j is on disk, written by j, with the contents j wrote
OwnFile(j) ==
    /\ Exists(fs, FilenameOf(jobs[j].handler))
    /\ fs[FilenameOf(jobs[j].handler)] = FileOf(j, jobs[j].written)

\* C8: from the exporter's return to the removal, the file of a job is the
\* one it wrote; what it uploads is what it wrote; it never finds the file
\* missing.
C8_OverlappingJobsKeepOwnFile ==
    \A j \in JobIds :
        /\ jobs[j].pc \in {"written", "uploaded", "finally"} => OwnFile(j)
        /\ jobs[j].uploaded # <<>> => jobs[j].uploaded[1] = FileOf(j, jobs[j].written)
        /\ jobs[j].exc # "FileNotFoundError"

\* Two jobs for the same table overlap: one has uploaded its file while the
\* other, started earlier, holds fetched data it has yet to write.
C8_Witness ==
    \E j, k \in JobIds :
        /\ k < j
        /\ jobs[j].handler = jobs[k].handler
        /\ jobs[j].pc = "uploaded"
        /\ jobs[k].pc = "aclose"
        /\ jobs[k].data # jobs[j].data

\* C9: when a job ends, normally or by an error, the export file of its table
\* is not on disk.
C9_NoFileAfterAnyJobEnd ==
    [][\A j \in JobIds :
          (jobs[j].pc \notin Ended /\ jobs'[j].pc \in Ended)
              => ~Exists(fs', FilenameOf(jobs[j].handler))]_vars

====
